---- MODULE Spec2Model ----
(***************************************************************************)
(* FormaMail Python SDK: the request builders of the emails resource       *)
(* (send, send_with_attachment, send_bulk), recipient normalisation, the   *)
(* response unwrapping of the resource methods, and the client's me().     *)
(*                                                                         *)
(* Python values are tagged records [t, v]: t is the Python type, v the    *)
(* payload (a string, a number, a boolean, a sequence of values for a      *)
(* list, a function from key strings to values for a dict).                *)
(***************************************************************************)
EXTENDS Integers, Sequences, FiniteSets, TLC

VARIABLES pc, op, args, request, nreq, response, result, client, closes, ctx

vars == <<pc, op, args, request, nreq, response, result, client, closes, ctx>>

\* the client object, the close() calls its HTTP client has received, and
\* the position relative to a "with" block
life == <<client, closes, ctx>>

(***************************************************************************)
(* Bounds of the model.                                                    *)
(***************************************************************************)
\* longest recipient list given to _normalize_recipients
MaxListLen == 2
\* most keyword options supplied in one call of send / send_bulk
MaxSupplied == 2
\* most extra keyword options (**kwargs) given to send_with_attachment
MaxKwargs == 1
\* most explicit close() calls on one client
MaxCloses == 2

\* "recipients: List of recipients (max 1000)", the documented limit
MaxBulkRecipients == 1000

(***************************************************************************)
(* Python values.                                                          *)
(***************************************************************************)
Str(s) == [t |-> "str", v |-> s]
Num(n) == [t |-> "int", v |-> n]
Bool(b) == [t |-> "bool", v |-> b]
List(s) == [t |-> "list", v |-> s]
Dict(f) == [t |-> "dict", v |-> f]
None == [t |-> "none", v |-> "None"]
Exc(name) == [t |-> "exception", v |-> name]

EmptyMap == [k \in {} |-> None]

\* the result of evaluating an expression: a value, or a raised exception
Returned(v) == [ok |-> TRUE, v |-> v]
Raised(name) == [ok |-> FALSE, v |-> Exc(name)]

\* Python truthiness, as tested by "if x:"
Truthy(x) ==
    CASE x.t = "none" -> FALSE
      [] x.t = "str" -> x.v # ""
      [] x.t = "int" -> x.v # 0
      [] x.t = "bool" -> x.v
      [] x.t = "list" -> Len(x.v) > 0
      [] x.t = "dict" -> DOMAIN x.v # {}
      [] OTHER -> TRUE

\* d[k] = v on a dict payload
Put(d, k, v) == [x \in (DOMAIN d) \cup {k} |-> IF x = k THEN v ELSE d[x]]

(***************************************************************************)
(* _normalize_recipients                                                   *)
(***************************************************************************)
\* NormalizeElement without its isinstance test: every element is wrapped
NormalizeElementWrapAll(r) == Dict([email |-> r])

\* the loop body: a string element becomes {"email": r}, any other element
\* is appended as it is
NormalizeElement(r) ==
    IF r.t = "str" THEN Dict([email |-> r]) ELSE r

_normalize_recipients(recipients) ==
    CASE recipients.t = "str" ->
            Returned(List(<<Dict([email |-> recipients])>>))
      [] recipients.t = "dict" ->
            Returned(List(<<recipients>>))
      [] recipients.t = "list" ->
            Returned(List([i \in 1..Len(recipients.v) |->
                              NormalizeElement(recipients.v[i])]))
      [] OTHER -> Raised("ValueError")

(***************************************************************************)
(* Inputs of _normalize_recipients: strings (one of them empty), records   *)
(* (one without an email key), a number, None, and lists of up to          *)
(* MaxListLen elements, an element being any of the former or a list.      *)
(***************************************************************************)
SeqsUpTo(S, n) == UNION {[1..k -> S] : k \in 0..n}

RecipientScalars ==
    { Str("a@x.com"),
      Str(""),
      Dict([email |-> Str("b@x.com"), name |-> Str("B")]),
      Dict([name |-> Str("NoAddress")]),
      Num(7),
      None }

RecipientElements == RecipientScalars \cup {List(<<Str("n@x.com")>>)}

RecipientInputs ==
    RecipientScalars \cup {List(s) : s \in SeqsUpTo(RecipientElements, MaxListLen)}

\* the shapes RecipientInput declares: str, dict, or a list of str / dict
IsStrOrDict(x) == x.t \in {"str", "dict"}

IsRecipientInput(x) ==
    \/ IsStrOrDict(x)
    \/ x.t = "list" /\ \A i \in 1..Len(x.v) : IsStrOrDict(x.v[i])

(***************************************************************************)
(* The client objects.                                                     *)
(***************************************************************************)
DEFAULT_BASE_URL == Str("https://api.formamail.com")
DEFAULT_TIMEOUT == 30

NoClient == [kind |-> "none"]

\* HttpClient(base_url=..., api_key=..., timeout=..., headers=...)
NewHttp(base_url, api_key, timeout, headers) ==
    [base_url |-> base_url, api_key |-> api_key, timeout |-> timeout,
     headers |-> headers, state |-> "open"]

\* Formamail.__init__ without the api_key test
FormamailInitUnchecked(api_key, base_url, timeout, headers) ==
    [result |-> Returned(None),
     client |-> [kind |-> "sync",
                 http |-> NewHttp(base_url, api_key, timeout, headers),
                 emails |-> "EmailsResource",
                 templates |-> "TemplatesResource",
                 webhooks |-> "WebhooksResource"]]

\* Formamail.__init__: the outcome and the object constructed, if any
FormamailInit(api_key, base_url, timeout, headers) ==
    IF ~Truthy(api_key)
    THEN [result |-> [ok |-> FALSE,
                      v |-> [t |-> "exception", v |-> "ValueError",
                             msg |-> "api_key is required"]],
          client |-> NoClient]
    ELSE [result |-> Returned(None),
          client |-> [kind |-> "sync",
                      http |-> NewHttp(base_url, api_key, timeout, headers),
                      emails |-> "EmailsResource",
                      templates |-> "TemplatesResource",
                      webhooks |-> "WebhooksResource"]]

\* AsyncFormamail.__init__: the outcome and the object constructed, if any
AsyncFormamailInit(api_key, base_url, timeout, headers) ==
    IF ~Truthy(api_key)
    THEN [result |-> [ok |-> FALSE,
                      v |-> [t |-> "exception", v |-> "ValueError",
                             msg |-> "api_key is required"]],
          client |-> NoClient]
    ELSE [result |-> Returned(None),
          client |-> [kind |-> "async",
                      http |-> NewHttp(base_url, api_key, timeout, headers),
                      emails |-> "AsyncEmailsResource",
                      templates |-> "AsyncTemplatesResource",
                      webhooks |-> "AsyncWebhooksResource"]]

\* Formamail(api_key="test_api_key") and AsyncFormamail(api_key="test_api_key")
DefaultClients ==
    { FormamailInit(Str("test_api_key"), DEFAULT_BASE_URL,
                    Num(DEFAULT_TIMEOUT), None).client,
      AsyncFormamailInit(Str("test_api_key"), DEFAULT_BASE_URL,
                         Num(DEFAULT_TIMEOUT), None).client }

\* a call goes through a client of its kind whose HTTP client is open
Usable(kind) ==
    /\ client.kind = kind
    /\ client.http.state = "open"

NoArgs == [none |-> None]
NoRequest == [method |-> "none"]
NoResponse == [kind |-> "none"]
NoResult == [ok |-> TRUE, v |-> [t |-> "unset", v |-> "unset"]]

(***************************************************************************)
(* The specification of the pure function _normalize_recipients: the       *)
(* input is drawn from RecipientInputs and the function is applied to it.  *)
(***************************************************************************)
InitNormalize ==
    /\ pc = "call"
    /\ op = "_normalize_recipients"
    /\ args \in {[recipients |-> x] : x \in RecipientInputs}
    /\ request = NoRequest
    /\ nreq = 0
    /\ response = NoResponse
    /\ result = NoResult
    /\ client = NoClient
    /\ closes = 0
    /\ ctx = "outside"

Normalize ==
    /\ pc = "call"
    /\ op = "_normalize_recipients"
    /\ result' = _normalize_recipients(args.recipients)
    /\ pc' = "done"
    /\ UNCHANGED <<op, args, request, nreq, response>>
    /\ UNCHANGED life

NextNormalize == Normalize

SpecNormalize == InitNormalize /\ [][NextNormalize]_vars

(***************************************************************************)
(* Keyword options.  A call supplies a subset of the optional keyword      *)
(* parameters; a parameter that is not supplied has its default, None.     *)
(***************************************************************************)
SendOptionNames ==
    { "cc", "bcc", "version", "sender_email", "sender_id", "from_name",
      "reply_to", "variables", "priority", "scheduled_at", "headers",
      "tags", "metadata", "attachments" }

BulkOptionNames ==
    { "version", "base_variables", "attachments", "sender_email",
      "sender_id", "from_name", "reply_to", "priority", "headers", "tags",
      "metadata", "batch_name", "dry_run", "scheduled_at" }

Arg(o, k) == IF k \in DOMAIN o THEN o[k] ELSE None

\* a non-empty value of each string option
SampleString(k) ==
    CASE k = "version" -> "draft"
      [] k = "sender_email" -> "noreply@x.com"
      [] k = "sender_id" -> "snd_1"
      [] k = "from_name" -> "Acme"
      [] k = "reply_to" -> "help@x.com"
      [] k = "priority" -> "high"
      [] k = "scheduled_at" -> "2025-01-01T00:00:00Z"
      [] k = "batch_name" -> "january"

SampleDict(k) ==
    CASE k = "variables" -> [firstName |-> Str("John")]
      [] k = "base_variables" -> [companyName |-> Str("Acme")]
      [] k = "headers" -> [XCampaign |-> Str("c1")]
      [] k = "metadata" -> [orderId |-> Str("42")]

PdfAttachment ==
    Dict([type |-> Str("pdf"), templateId |-> Str("invoice-pdf")])
DocxAttachment ==
    Dict([type |-> Str("docx"), templateId |-> Str("invoice-pdf")])
StandardBulkAttachment ==
    Dict([filename |-> Str("standard.pdf"),
          attachmentTemplateId |-> Str("standard-pdf")])

\* the values a supplied option takes: the empty one(s) and non-empty ones
CommonOptionValues(k) ==
    CASE k \in {"cc", "bcc"} ->
            { List(<<>>), Str(""), Str("c@x.com"),
              List(<<Str("c@x.com"),
                     Dict([email |-> Str("d@x.com"), name |-> Str("D")])>>) }
      [] k \in {"variables", "base_variables", "headers", "metadata"} ->
            { Dict(EmptyMap), Dict(SampleDict(k)) }
      [] k = "tags" -> { List(<<>>), List(<<Str("newsletter")>>) }
      [] k = "dry_run" -> { Bool(TRUE), Bool(FALSE) }
      [] OTHER -> { Str(""), Str(SampleString(k)) }

SendOptionValues ==
    [k \in SendOptionNames |->
        IF k = "attachments"
        THEN { List(<<>>), List(<<PdfAttachment>>), List(<<DocxAttachment>>) }
        ELSE CommonOptionValues(k)]

BulkOptionValues ==
    [k \in BulkOptionNames |->
        IF k = "attachments"
        THEN { List(<<>>), List(<<StandardBulkAttachment>>) }
        ELSE CommonOptionValues(k)]

RECURSIVE Assignments(_, _)
Assignments(S, vals) ==
    IF S = {} THEN {EmptyMap}
    ELSE LET k == CHOOSE x \in S : TRUE
         IN  {Put(f, k, v) : f \in Assignments(S \ {k}, vals), v \in vals[k]}

OptionsUpTo(names, vals, n) ==
    UNION {Assignments(S, vals) : S \in {T \in SUBSET names : Cardinality(T) <= n}}

SendOptions == OptionsUpTo(SendOptionNames, SendOptionValues, MaxSupplied)
SendKwargs == OptionsUpTo(SendOptionNames, SendOptionValues, MaxKwargs)
BulkOptions == OptionsUpTo(BulkOptionNames, BulkOptionValues, MaxSupplied)

(***************************************************************************)
(* Request bodies.                                                         *)
(***************************************************************************)
\* IfTruthy without its test: the key is always set
IfTruthyAlways(body, key, val) == Put(body, key, val)

\* "if val: body[key] = val"
IfTruthy(body, key, val) == IF Truthy(val) THEN Put(body, key, val) ELSE body

\* IfNotNone testing truthiness instead: "if val: body[key] = val"
IfNotNoneAsTruthy(body, key, val) ==
    IF Truthy(val) THEN Put(body, key, val) ELSE body

\* "if val is not None: body[key] = val"
IfNotNone(body, key, val) == IF val # None THEN Put(body, key, val) ELSE body

\* a run of "if <option>: body[<key>] = <option>" statements, in order;
\* fields[i] = <<option, key>>
RECURSIVE CopyTruthy(_, _, _, _)
CopyTruthy(body, o, fields, i) ==
    IF i > Len(fields) THEN body
    ELSE CopyTruthy(IfTruthy(body, fields[i][2], Arg(o, fields[i][1])),
                    o, fields, i + 1)

\* EmailsResource.send, the truthiness-tested options
SendFields ==
    << <<"version", "version">>,
       <<"sender_email", "senderEmail">>,
       <<"sender_id", "senderId">>,
       <<"from_name", "fromName">>,
       <<"reply_to", "replyTo">>,
       <<"variables", "variables">>,
       <<"priority", "priority">>,
       <<"scheduled_at", "scheduledAt">>,
       <<"headers", "headers">>,
       <<"tags", "tags">>,
       <<"metadata", "metadata">>,
       <<"attachments", "attachments">> >>

\* EmailsResource.send: the body, or the ValueError of a normalisation
EmailsSendBody(template_id, to, o) ==
    LET cc == Arg(o, "cc")
        bcc == Arg(o, "bcc")
        nto == _normalize_recipients(to)
        ncc == _normalize_recipients(cc)
        nbcc == _normalize_recipients(bcc)
    IN  IF ~nto.ok THEN nto
        ELSE IF cc # None /\ ~ncc.ok THEN ncc
        ELSE IF bcc # None /\ ~nbcc.ok THEN nbcc
        ELSE LET b0 == [templateId |-> template_id, to |-> nto.v]
                 b1 == IF cc # None THEN Put(b0, "cc", ncc.v) ELSE b0
                 b2 == IF bcc # None THEN Put(b1, "bcc", nbcc.v) ELSE b1
             IN  Returned(Dict(CopyTruthy(b2, o, SendFields, 1)))

\* the attachment entry with file_name tested against None only
AttachmentEntryNameNotNone(attachment_template_id, attachment_type, file_name, attachment_variables) ==
    LET a0 == [type |-> attachment_type, templateId |-> attachment_template_id]
        a1 == IfNotNone(a0, "fileName", file_name)
        a2 == IfTruthy(a1, "variables", attachment_variables)
    IN  Dict(a2)

\* EmailsResource.send_with_attachment: the attachment entry
AttachmentEntry(attachment_template_id, attachment_type, file_name, attachment_variables) ==
    LET a0 == [type |-> attachment_type, templateId |-> attachment_template_id]
        a1 == IfTruthy(a0, "fileName", file_name)
        a2 == IfTruthy(a1, "variables", attachment_variables)
    IN  Dict(a2)

\* EmailsResource.send_with_attachment: self.send(template_id=..., to=...,
\* attachments=[attachment], **kwargs); a keyword given twice is a TypeError
EmailsSendWithAttachmentBody(template_id, to, attachment_template_id, attachment_type, file_name, attachment_variables, kwargs) ==
    IF "attachments" \in DOMAIN kwargs THEN Raised("TypeError")
    ELSE EmailsSendBody(template_id, to,
            Put(kwargs, "attachments",
                List(<<AttachmentEntry(attachment_template_id, attachment_type,
                                       file_name, attachment_variables)>>)))

\* AsyncEmailsResource.send, the truthiness-tested options
AsyncSendFields ==
    << <<"version", "version">>,
       <<"sender_email", "senderEmail">>,
       <<"sender_id", "senderId">>,
       <<"from_name", "fromName">>,
       <<"reply_to", "replyTo">>,
       <<"variables", "variables">>,
       <<"priority", "priority">>,
       <<"scheduled_at", "scheduledAt">>,
       <<"headers", "headers">>,
       <<"tags", "tags">>,
       <<"metadata", "metadata">>,
       <<"attachments", "attachments">> >>

\* AsyncEmailsResource.send testing cc and bcc by truthiness
AsyncEmailsSendBodyCcTruthy(template_id, to, o) ==
    LET cc == Arg(o, "cc")
        bcc == Arg(o, "bcc")
        nto == _normalize_recipients(to)
        ncc == _normalize_recipients(cc)
        nbcc == _normalize_recipients(bcc)
    IN  IF ~nto.ok THEN nto
        ELSE IF Truthy(cc) /\ ~ncc.ok THEN ncc
        ELSE IF Truthy(bcc) /\ ~nbcc.ok THEN nbcc
        ELSE LET b0 == [templateId |-> template_id, to |-> nto.v]
                 b1 == IF Truthy(cc) THEN Put(b0, "cc", ncc.v) ELSE b0
                 b2 == IF Truthy(bcc) THEN Put(b1, "bcc", nbcc.v) ELSE b1
             IN  Returned(Dict(CopyTruthy(b2, o, AsyncSendFields, 1)))

\* AsyncEmailsResource.send: the body, or the ValueError of a normalisation
AsyncEmailsSendBody(template_id, to, o) ==
    LET cc == Arg(o, "cc")
        bcc == Arg(o, "bcc")
        nto == _normalize_recipients(to)
        ncc == _normalize_recipients(cc)
        nbcc == _normalize_recipients(bcc)
    IN  IF ~nto.ok THEN nto
        ELSE IF cc # None /\ ~ncc.ok THEN ncc
        ELSE IF bcc # None /\ ~nbcc.ok THEN nbcc
        ELSE LET b0 == [templateId |-> template_id, to |-> nto.v]
                 b1 == IF cc # None THEN Put(b0, "cc", ncc.v) ELSE b0
                 b2 == IF bcc # None THEN Put(b1, "bcc", nbcc.v) ELSE b1
             IN  Returned(Dict(CopyTruthy(b2, o, AsyncSendFields, 1)))

\* AsyncEmailsResource.send_with_attachment: the attachment entry
AsyncAttachmentEntry(attachment_template_id, attachment_type, file_name, attachment_variables) ==
    LET a0 == [type |-> attachment_type, templateId |-> attachment_template_id]
        a1 == IfTruthy(a0, "fileName", file_name)
        a2 == IfTruthy(a1, "variables", attachment_variables)
    IN  Dict(a2)

\* AsyncEmailsResource.send_with_attachment: await self.send(template_id=...,
\* to=..., attachments=[attachment], **kwargs)
AsyncEmailsSendWithAttachmentBody(template_id, to, attachment_template_id, attachment_type, file_name, attachment_variables, kwargs) ==
    IF "attachments" \in DOMAIN kwargs THEN Raised("TypeError")
    ELSE AsyncEmailsSendBody(template_id, to,
            Put(kwargs, "attachments",
                List(<<AsyncAttachmentEntry(attachment_template_id,
                          attachment_type, file_name, attachment_variables)>>)))

\* limit: int = 20, page: int = 1
DefaultLimit == 20
DefaultPage == 1

\* EmailsResource.list: the query parameters, every key always present
EmailsListParams(o) ==
    Dict([recipient |-> Arg(o, "recipient"),
          status |-> Arg(o, "status"),
          templateId |-> Arg(o, "template_id"),
          dateFrom |-> Arg(o, "date_from"),
          dateTo |-> Arg(o, "date_to"),
          limit |-> IF "limit" \in DOMAIN o THEN o["limit"] ELSE Num(DefaultLimit),
          page |-> IF "page" \in DOMAIN o THEN o["page"] ELSE Num(DefaultPage)])

\* AsyncEmailsResource.list: the query parameters
AsyncEmailsListParams(o) ==
    Dict([recipient |-> Arg(o, "recipient"),
          status |-> Arg(o, "status"),
          templateId |-> Arg(o, "template_id"),
          dateFrom |-> Arg(o, "date_from"),
          dateTo |-> Arg(o, "date_to"),
          limit |-> IF "limit" \in DOMAIN o THEN o["limit"] ELSE Num(DefaultLimit),
          page |-> IF "page" \in DOMAIN o THEN o["page"] ELSE Num(DefaultPage)])

\* EmailsResource.send_bulk, the truthiness-tested options before dry_run
BulkFields ==
    << <<"version", "version">>,
       <<"base_variables", "baseVariables">>,
       <<"attachments", "attachments">>,
       <<"sender_email", "senderEmail">>,
       <<"sender_id", "senderId">>,
       <<"from_name", "fromName">>,
       <<"reply_to", "replyTo">>,
       <<"priority", "priority">>,
       <<"headers", "headers">>,
       <<"tags", "tags">>,
       <<"metadata", "metadata">>,
       <<"batch_name", "batchName">> >>

\* EmailsResource.send_bulk appending the default attachments to the
\* attachmentOverrides of every recipient that has some
EmailsSendBulkBodyMergingDefaults(template_id, recipients, o) ==
    LET defaults == Arg(o, "attachments")
        merge(r) ==
            IF "attachmentOverrides" \in DOMAIN r.v /\ Truthy(defaults)
            THEN Dict(Put(r.v, "attachmentOverrides",
                          List(r.v["attachmentOverrides"].v \o defaults.v)))
            ELSE r
        merged == List([i \in 1..Len(recipients.v) |-> merge(recipients.v[i])])
        b0 == [templateId |-> template_id, recipients |-> merged]
        b1 == CopyTruthy(b0, o, BulkFields, 1)
        b2 == IfNotNone(b1, "dryRun", Arg(o, "dry_run"))
        b3 == IfTruthy(b2, "scheduledAt", Arg(o, "scheduled_at"))
    IN  Returned(Dict(b3))

\* EmailsResource.send_bulk
EmailsSendBulkBody(template_id, recipients, o) ==
    LET b0 == [templateId |-> template_id, recipients |-> recipients]
        b1 == CopyTruthy(b0, o, BulkFields, 1)
        b2 == IfNotNone(b1, "dryRun", Arg(o, "dry_run"))
        b3 == IfTruthy(b2, "scheduledAt", Arg(o, "scheduled_at"))
    IN  Returned(Dict(b3))

\* AsyncEmailsResource.send_bulk, the truthiness-tested options before dry_run
AsyncBulkFields ==
    << <<"version", "version">>,
       <<"base_variables", "baseVariables">>,
       <<"attachments", "attachments">>,
       <<"sender_email", "senderEmail">>,
       <<"sender_id", "senderId">>,
       <<"from_name", "fromName">>,
       <<"reply_to", "replyTo">>,
       <<"priority", "priority">>,
       <<"headers", "headers">>,
       <<"tags", "tags">>,
       <<"metadata", "metadata">>,
       <<"batch_name", "batchName">> >>

\* AsyncEmailsResource.send_bulk
AsyncEmailsSendBulkBody(template_id, recipients, o) ==
    LET b0 == [templateId |-> template_id, recipients |-> recipients]
        b1 == CopyTruthy(b0, o, AsyncBulkFields, 1)
        b2 == IfNotNone(b1, "dryRun", Arg(o, "dry_run"))
        b3 == IfTruthy(b2, "scheduledAt", Arg(o, "scheduled_at"))
    IN  Returned(Dict(b3))

(***************************************************************************)
(* Response handling.                                                      *)
(***************************************************************************)
\* response.get("data", response): only a dict has the method get
ResponseGet(resp) ==
    IF resp.t = "dict"
    THEN Returned(IF "data" \in DOMAIN resp.v THEN resp.v["data"] ELSE resp)
    ELSE Raised("AttributeError")

\* what the HTTP collaborator answers: a JSON value, or it raises
JsonResponses ==
    { Dict([data |-> Dict([id |-> Str("e_1")])]),
      Dict([id |-> Str("e_1")]),
      Dict([data |-> List(<<>>), meta |-> Dict([page |-> Num(1)])]),
      Dict([data |-> None]),
      Dict(EmptyMap),
      List(<<Dict([id |-> Str("e_1")])>>),
      Str("OK"),
      None }

HttpErrors == { Exc("ApiError"), Exc("TransportError") }

(***************************************************************************)
(* Inputs of the calls.                                                    *)
(***************************************************************************)
\* a positional parameter with a default that the caller leaves out
Omitted == [t |-> "omitted", v |-> "omitted"]
Bind(x, default) == IF x = Omitted THEN default ELSE x

\* attachment_type: str = "pdf"
DefaultAttachmentType == Str("pdf")

TemplateIds == { Str(""), Str("tmpl_welcome") }

ToInputs ==
    { Str("a@x.com"),
      Str(""),
      Dict([email |-> Str("b@x.com"), name |-> Str("B")]),
      List(<<Str("a@x.com"), Dict([email |-> Str("b@x.com"), name |-> Str("B")])>>),
      List(<<List(<<Str("n@x.com")>>)>>),
      Num(7) }

AttachmentToInputs == { Str("a@x.com"), Num(7) }
AttachmentTypes == { Omitted, Str("pdf"), Str("excel"), Str("docx") }
FileNames == { None, Str(""), Str("Invoice-001") }
AttachmentVariables ==
    { None, Dict(EmptyMap), Dict([invoiceNumber |-> Str("INV-001")]) }

AliceRecipient ==
    Dict([email |-> Str("u1@x.com"),
          variables |-> Dict([firstName |-> Str("Alice")])])
BareRecipient == Dict([email |-> Str("u2@x.com")])
VipRecipient ==
    Dict([email |-> Str("vip@x.com"),
          variables |-> Dict([name |-> Str("VIP")]),
          attachmentOverrides |->
              List(<<Dict([filename |-> Str("vip-report.pdf"),
                           attachmentTemplateId |-> Str("vip-report-pdf")])>>)])

\* recipients of send_bulk: no entry, one, two, and one more than the limit
BulkRecipientLists ==
    { List(<<>>),
      List(<<AliceRecipient>>),
      List(<<BareRecipient>>),
      List(<<AliceRecipient, BareRecipient>>),
      List(<<VipRecipient, AliceRecipient>>),
      List([i \in 1..(MaxBulkRecipients + 1) |-> AliceRecipient]) }

ResourceIds == { Str("e_1"), Str("") }

ListOptionNames ==
    { "recipient", "status", "template_id", "date_from", "date_to", "limit",
      "page" }

ListOptionValues ==
    [k \in ListOptionNames |->
        CASE k = "recipient" -> { Str("a@x.com"), Str("") }
          [] k = "status" -> { Str("sent") }
          [] k = "template_id" -> { Str("tmpl_welcome") }
          [] k = "date_from" -> { Str("2024-01-01") }
          [] k = "date_to" -> { Str("2024-12-31") }
          [] k = "limit" -> { Num(50), Num(0) }
          [] OTHER -> { Num(2) }]

ListOptions == OptionsUpTo(ListOptionNames, ListOptionValues, MaxKwargs)

\* the request an operation makes of its arguments: method, path, query
\* parameters, and the body built (None for a GET) or the exception raised
\* while building it
CallOf(o, a) ==
    CASE o = "emails.send" ->
            [method |-> "POST", path |-> "/api/v1/emails/send", params |-> None,
             built |-> EmailsSendBody(a.template_id, a.to, a.options)]
      [] o = "async.emails.send" ->
            [method |-> "POST", path |-> "/api/v1/emails/send", params |-> None,
             built |-> AsyncEmailsSendBody(a.template_id, a.to, a.options)]
      [] o = "emails.send_with_attachment" ->
            [method |-> "POST", path |-> "/api/v1/emails/send", params |-> None,
             built |-> EmailsSendWithAttachmentBody(a.template_id, a.to,
                          a.attachment_template_id,
                          Bind(a.attachment_type, DefaultAttachmentType),
                          a.file_name, a.attachment_variables, a.options)]
      [] o = "async.emails.send_with_attachment" ->
            [method |-> "POST", path |-> "/api/v1/emails/send", params |-> None,
             built |-> AsyncEmailsSendWithAttachmentBody(a.template_id, a.to,
                          a.attachment_template_id,
                          Bind(a.attachment_type, DefaultAttachmentType),
                          a.file_name, a.attachment_variables, a.options)]
      [] o = "emails.send_bulk" ->
            [method |-> "POST", path |-> "/api/v1/emails/send/bulk",
             params |-> None,
             built |-> EmailsSendBulkBody(a.template_id, a.recipients, a.options)]
      [] o = "async.emails.send_bulk" ->
            [method |-> "POST", path |-> "/api/v1/emails/send/bulk",
             params |-> None,
             built |-> AsyncEmailsSendBulkBody(a.template_id, a.recipients,
                                               a.options)]
      [] o = "emails.get" ->
            [method |-> "GET", path |-> "/api/v1/emails/" \o a.email_id.v,
             params |-> None, built |-> Returned(None)]
      [] o = "async.emails.get" ->
            [method |-> "GET", path |-> "/api/v1/emails/" \o a.email_id.v,
             params |-> None, built |-> Returned(None)]
      [] o = "emails.list" ->
            [method |-> "GET", path |-> "/api/v1/emails",
             params |-> EmailsListParams(a.options), built |-> Returned(None)]
      [] o = "async.emails.list" ->
            [method |-> "GET", path |-> "/api/v1/emails",
             params |-> AsyncEmailsListParams(a.options),
             built |-> Returned(None)]

(***************************************************************************)
(* The client: a call builds its request and hands it to the HTTP          *)
(* collaborator (pc = "awaiting"), or raises before any request; the       *)
(* collaborator's answer completes the call (pc = "done"); the caller      *)
(* takes the outcome and the call's frame is discarded (pc = "idle").      *)
(***************************************************************************)
Init ==
    /\ pc = "idle"
    /\ op = "none"
    /\ args = NoArgs
    /\ request = NoRequest
    /\ nreq = 0
    /\ response = NoResponse
    /\ result = NoResult
    /\ client \in DefaultClients
    /\ closes = 0
    /\ ctx = "outside"

\* the common tail of a call, with the request issued before the body is
\* known to have been built
IssueBeforeBuilt(o, a, method, path, params, built) ==
    /\ op' = o
    /\ args' = a
    /\ response' = NoResponse
    /\ UNCHANGED life
    /\ nreq' = nreq + 1
    /\ IF built.ok
       THEN /\ request' = [method |-> method, path |-> path,
                           params |-> params, body |-> built.v]
            /\ pc' = "awaiting"
            /\ result' = NoResult
       ELSE /\ request' = NoRequest
            /\ pc' = "done"
            /\ result' = built

\* the common tail of a call: built is the body (or None for a GET), or the
\* exception raised while building it
Issue(o, a, method, path, params, built) ==
    /\ op' = o
    /\ args' = a
    /\ response' = NoResponse
    /\ UNCHANGED life
    /\ IF built.ok
       THEN /\ request' = [method |-> method, path |-> path,
                           params |-> params, body |-> built.v]
            /\ nreq' = nreq + 1
            /\ pc' = "awaiting"
            /\ result' = NoResult
       ELSE /\ request' = NoRequest
            /\ nreq' = nreq
            /\ pc' = "done"
            /\ result' = built

\* a call of an operation of the emails resource
Invoke(o, a) ==
    LET c == CallOf(o, a)
    IN  Issue(o, a, c.method, c.path, c.params, c.built)

EmailsSend ==
    /\ pc = "idle"
    /\ Usable("sync")
    /\ \E tid \in TemplateIds, to \in ToInputs, o \in SendOptions :
        Invoke("emails.send", [template_id |-> tid, to |-> to, options |-> o])

AsyncEmailsSend ==
    /\ pc = "idle"
    /\ Usable("async")
    /\ \E tid \in TemplateIds, to \in ToInputs, o \in SendOptions :
        Invoke("async.emails.send",
               [template_id |-> tid, to |-> to, options |-> o])

EmailsSendWithAttachment ==
    /\ pc = "idle"
    /\ Usable("sync")
    /\ \E tid \in TemplateIds, to \in AttachmentToInputs,
       ty \in AttachmentTypes, fn \in FileNames,
       av \in AttachmentVariables, kw \in SendKwargs :
        Invoke("emails.send_with_attachment",
               [template_id |-> tid, to |-> to,
                attachment_template_id |-> Str("invoice-pdf"),
                attachment_type |-> ty, file_name |-> fn,
                attachment_variables |-> av, options |-> kw])

AsyncEmailsSendWithAttachment ==
    /\ pc = "idle"
    /\ Usable("async")
    /\ \E tid \in TemplateIds, to \in AttachmentToInputs,
       ty \in AttachmentTypes, fn \in FileNames,
       av \in AttachmentVariables, kw \in SendKwargs :
        Invoke("async.emails.send_with_attachment",
               [template_id |-> tid, to |-> to,
                attachment_template_id |-> Str("invoice-pdf"),
                attachment_type |-> ty, file_name |-> fn,
                attachment_variables |-> av, options |-> kw])

EmailsSendBulk ==
    /\ pc = "idle"
    /\ Usable("sync")
    /\ \E tid \in TemplateIds, rs \in BulkRecipientLists, o \in BulkOptions :
        Invoke("emails.send_bulk",
               [template_id |-> tid, recipients |-> rs, options |-> o])

AsyncEmailsSendBulk ==
    /\ pc = "idle"
    /\ Usable("async")
    /\ \E tid \in TemplateIds, rs \in BulkRecipientLists, o \in BulkOptions :
        Invoke("async.emails.send_bulk",
               [template_id |-> tid, recipients |-> rs, options |-> o])

EmailsGet ==
    /\ pc = "idle"
    /\ Usable("sync")
    /\ \E id \in ResourceIds : Invoke("emails.get", [email_id |-> id])

AsyncEmailsGet ==
    /\ pc = "idle"
    /\ Usable("async")
    /\ \E id \in ResourceIds : Invoke("async.emails.get", [email_id |-> id])

EmailsList ==
    /\ pc = "idle"
    /\ Usable("sync")
    /\ \E o \in ListOptions : Invoke("emails.list", [options |-> o])

AsyncEmailsList ==
    /\ pc = "idle"
    /\ Usable("async")
    /\ \E o \in ListOptions : Invoke("async.emails.list", [options |-> o])

TemplatesGet ==
    /\ pc = "idle"
    /\ Usable("sync")
    /\ \E id \in ResourceIds :
        Issue("templates.get", [template_id |-> id],
              "GET", "/api/v1/templates/" \o id.v, None, Returned(None))

Me ==
    /\ pc = "idle"
    /\ Usable("sync")
    /\ Issue("me", NoArgs, "GET", "/api/v1/me", None, Returned(None))

AsyncMe ==
    /\ pc = "idle"
    /\ Usable("async")
    /\ Issue("async.me", NoArgs, "GET", "/api/v1/me", None, Returned(None))

\* verify_api_key calls me()
VerifyApiKey ==
    /\ pc = "idle"
    /\ Usable("sync")
    /\ Issue("verify_api_key", NoArgs, "GET", "/api/v1/me", None,
             Returned(None))

AsyncVerifyApiKey ==
    /\ pc = "idle"
    /\ Usable("async")
    /\ Issue("async.verify_api_key", NoArgs, "GET", "/api/v1/me", None,
             Returned(None))

\* the operations that unwrap the response with response.get("data", response)
UnwrappingOps ==
    { "emails.send", "emails.send_with_attachment", "emails.send_bulk",
      "emails.get", "async.emails.send", "async.emails.send_with_attachment",
      "async.emails.send_bulk", "async.emails.get", "templates.get", "me",
      "async.me" }

\* the operations that return the response as it is
RawOps == { "emails.list", "async.emails.list" }

VerifyOps == { "verify_api_key", "async.verify_api_key" }

\* verify_api_key letting the error of me() through
VerifyApiKeyResultNoCatch(inner) ==
    IF inner.ok THEN Returned(Bool(TRUE)) ELSE inner

\* Formamail.verify_api_key, given the outcome of its me() call:
\* try: self.me(); return True / except Exception: return False
VerifyApiKeyResult(inner) ==
    IF inner.ok THEN Returned(Bool(TRUE)) ELSE Returned(Bool(FALSE))

\* AsyncFormamail.verify_api_key, given the outcome of its me() call
AsyncVerifyApiKeyResult(inner) ==
    IF inner.ok THEN Returned(Bool(TRUE)) ELSE Returned(Bool(FALSE))

\* what me(), get, send, ... make of the JSON answer; list returns it as is
Unwrap(o, r) == IF o \in RawOps THEN Returned(r) ELSE ResponseGet(r)

\* what the operation makes of the outcome of its HTTP call
Finish(o, inner) ==
    IF o = "verify_api_key" THEN VerifyApiKeyResult(inner)
    ELSE IF o = "async.verify_api_key" THEN AsyncVerifyApiKeyResult(inner)
    ELSE inner

\* the request has been answered and the call returns or raises: its
\* parameters and its body are gone, its outcome stays until taken
Complete(resp, outcome) ==
    /\ response' = resp
    /\ result' = outcome
    /\ pc' = "done"
    /\ args' = NoArgs
    /\ request' = NoRequest
    /\ UNCHANGED <<op, nreq>>
    /\ UNCHANGED life

\* the HTTP collaborator raises: the error propagates to the operation's
\* caller, through verify_api_key's handler if that is the operation
HttpRaises ==
    /\ pc = "awaiting"
    /\ \E e \in HttpErrors :
          Complete([kind |-> "error", v |-> e],
                   Finish(op, [ok |-> FALSE, v |-> e]))

\* the HTTP collaborator answers: return response.get("data", response), or
\* the answer itself from list
HttpAnswers ==
    /\ pc = "awaiting"
    /\ op \in UnwrappingOps \cup VerifyOps \cup RawOps
    /\ \E r \in JsonResponses :
          Complete([kind |-> "json", v |-> r], Finish(op, Unwrap(op, r)))

\* the caller takes the outcome
Return ==
    /\ pc = "done"
    /\ pc' = "idle"
    /\ op' = "none"
    /\ args' = NoArgs
    /\ request' = NoRequest
    /\ nreq' = 0
    /\ response' = NoResponse
    /\ result' = NoResult
    /\ UNCHANGED life

Next ==
    \/ EmailsSend
    \/ AsyncEmailsSend
    \/ EmailsSendWithAttachment
    \/ AsyncEmailsSendWithAttachment
    \/ EmailsSendBulk
    \/ AsyncEmailsSendBulk
    \/ EmailsGet
    \/ AsyncEmailsGet
    \/ EmailsList
    \/ AsyncEmailsList
    \/ TemplatesGet
    \/ Me
    \/ HttpRaises
    \/ HttpAnswers
    \/ Return

Spec == Init /\ [][Next]_vars

(***************************************************************************)
(* The life of one client object: construction, the with block, close,     *)
(* and the calls made through the client itself.                           *)
(***************************************************************************)
ApiKeys == { Str(""), None, Str("test_api_key") }
BaseUrls == { DEFAULT_BASE_URL, Str("https://custom.api.com") }
Timeouts == { Num(DEFAULT_TIMEOUT), Num(60) }
HeaderInputs == { None, Dict([X_Custom |-> Str("value")]) }
BlockExceptions == { None, Exc("RuntimeError") }

\* HttpClient.close / AsyncHttpClient.close
HttpClose(http) == [http EXCEPT !.state = "closed"]

\* Formamail.close: the client and the count of closes of its HTTP client
FormamailClose(c, n) ==
    [client |-> [c EXCEPT !.http = HttpClose(@)], closes |-> n + 1]

\* Formamail.__enter__: return self
FormamailEnter(c) == Returned(c)

\* Formamail.__exit__ leaving the HTTP client as it is
FormamailExitWithoutClose(c, n) == [client |-> c, closes |-> n]

\* Formamail.__exit__(*args): self.close(), whatever args holds
FormamailExit(c, n) == FormamailClose(c, n)

\* AsyncFormamail.close
AsyncFormamailClose(c, n) ==
    [client |-> [c EXCEPT !.http = HttpClose(@)], closes |-> n + 1]

\* AsyncFormamail.__aenter__
AsyncFormamailEnter(c) == Returned(c)

\* AsyncFormamail.__aexit__(*args)
AsyncFormamailExit(c, n) == AsyncFormamailClose(c, n)

InitClient ==
    /\ pc = "idle"
    /\ op = "none"
    /\ args = NoArgs
    /\ request = NoRequest
    /\ nreq = 0
    /\ response = NoResponse
    /\ result = NoResult
    /\ client = NoClient
    /\ closes = 0
    /\ ctx = "outside"

\* a call that issues no HTTP request: it is done at once
Local(o, a, outcome) ==
    /\ op' = o
    /\ args' = a
    /\ result' = outcome
    /\ pc' = "done"
    /\ UNCHANGED <<request, nreq, response>>

Construct ==
    /\ pc = "idle"
    /\ client = NoClient
    /\ \E k \in ApiKeys, u \in BaseUrls, t \in Timeouts, h \in HeaderInputs :
          LET made == FormamailInit(k, u, t, h)
          IN  /\ Local("Formamail",
                       [api_key |-> k, base_url |-> u, timeout |-> t,
                        headers |-> h], made.result)
              /\ client' = made.client
    /\ UNCHANGED <<closes, ctx>>

AsyncConstruct ==
    /\ pc = "idle"
    /\ client = NoClient
    /\ \E k \in ApiKeys, u \in BaseUrls, t \in Timeouts, h \in HeaderInputs :
          LET made == AsyncFormamailInit(k, u, t, h)
          IN  /\ Local("AsyncFormamail",
                       [api_key |-> k, base_url |-> u, timeout |-> t,
                        headers |-> h], made.result)
              /\ client' = made.client
    /\ UNCHANGED <<closes, ctx>>

Enter ==
    /\ pc = "idle"
    /\ client.kind = "sync"
    /\ ctx = "outside"
    /\ Local("__enter__", NoArgs, FormamailEnter(client))
    /\ ctx' = "inside"
    /\ UNCHANGED <<client, closes>>

AsyncEnter ==
    /\ pc = "idle"
    /\ client.kind = "async"
    /\ ctx = "outside"
    /\ Local("__aenter__", NoArgs, AsyncFormamailEnter(client))
    /\ ctx' = "inside"
    /\ UNCHANGED <<client, closes>>

\* the block ends, normally (exc is None) or by an exception
Exit ==
    /\ pc = "idle"
    /\ client.kind = "sync"
    /\ ctx = "inside"
    /\ \E exc \in BlockExceptions :
          Local("__exit__", [exc |-> exc], Returned(None))
    /\ client' = FormamailExit(client, closes).client
    /\ closes' = FormamailExit(client, closes).closes
    /\ ctx' = "left"

AsyncExit ==
    /\ pc = "idle"
    /\ client.kind = "async"
    /\ ctx = "inside"
    /\ \E exc \in BlockExceptions :
          Local("__aexit__", [exc |-> exc], Returned(None))
    /\ client' = AsyncFormamailExit(client, closes).client
    /\ closes' = AsyncFormamailExit(client, closes).closes
    /\ ctx' = "left"

Close ==
    /\ pc = "idle"
    /\ client.kind = "sync"
    /\ closes < MaxCloses
    /\ Local("close", NoArgs, Returned(None))
    /\ client' = FormamailClose(client, closes).client
    /\ closes' = FormamailClose(client, closes).closes
    /\ UNCHANGED ctx

AsyncClose ==
    /\ pc = "idle"
    /\ client.kind = "async"
    /\ closes < MaxCloses
    /\ Local("async.close", NoArgs, Returned(None))
    /\ client' = AsyncFormamailClose(client, closes).client
    /\ closes' = AsyncFormamailClose(client, closes).closes
    /\ UNCHANGED ctx

NextClient ==
    \/ Construct
    \/ AsyncConstruct
    \/ Enter
    \/ AsyncEnter
    \/ Exit
    \/ AsyncExit
    \/ Close
    \/ AsyncClose
    \/ Me
    \/ AsyncMe
    \/ VerifyApiKey
    \/ AsyncVerifyApiKey
    \/ HttpRaises
    \/ HttpAnswers
    \/ Return

SpecClient == InitClient /\ [][NextClient]_vars

\* MODEL ENDS; the claims follow.

(***************************************************************************)
(* Claims about _normalize_recipients, checked under SpecNormalize.        *)
(***************************************************************************)
NormalizeDone == pc = "done" /\ op = "_normalize_recipients"

\* C1: for a string s the result is the one-element list [{email: s}] with
\* no name key; for a record, the one-element list holding that record
\* unchanged; for a list of N strings/records, a list of exactly N elements
\* whose element i is the string/record rule applied to input element i.
C1_NormalizeShapes ==
    (NormalizeDone /\ IsRecipientInput(args.recipients)) =>
        LET x == args.recipients
            out == result.v.v
        IN  /\ result.ok
            /\ result.v.t = "list"
            /\ x.t = "str" =>
                  /\ Len(out) = 1
                  /\ out[1].t = "dict"
                  /\ DOMAIN out[1].v = {"email"}
                  /\ out[1].v.email = x
            /\ x.t = "dict" => out = <<x>>
            /\ x.t = "list" =>
                  /\ Len(out) = Len(x.v)
                  /\ \A i \in 1..Len(x.v) :
                        /\ x.v[i].t = "str" =>
                              /\ out[i].t = "dict"
                              /\ DOMAIN out[i].v = {"email"}
                              /\ out[i].v.email = x.v[i]
                        /\ x.v[i].t = "dict" => out[i] = x.v[i]

\* C1 witness: a two-element list, a string followed by a record with a
\* name, has been normalised.
C1_Witness ==
    /\ NormalizeDone
    /\ args.recipients =
          List(<<Str("a@x.com"), Dict([email |-> Str("b@x.com"), name |-> Str("B")])>>)
    /\ result.ok
    /\ Len(result.v.v) = 2

HasAddress(e) ==
    /\ e.t = "dict"
    /\ "email" \in DOMAIN e.v
    /\ e.v["email"].t = "str"
    /\ e.v["email"].v # ""

\* C2: every element of every list that _normalize_recipients returns has a
\* non-empty address (email), for all string, record and mixed-list inputs.
C2_NonEmptyAddress ==
    (NormalizeDone /\ IsRecipientInput(args.recipients)) =>
        /\ result.ok
        /\ \A i \in 1..Len(result.v.v) : HasAddress(result.v.v[i])

\* C3: normalisation fails with an invalid-argument error (ValueError) for
\* any input that is not a string, a record, or a list of strings/records;
\* a number, None or a nested list is never passed through into the result.
C3_RejectsOtherShapes ==
    (NormalizeDone /\ ~IsRecipientInput(args.recipients)) =>
        result = Raised("ValueError")

(***************************************************************************)
(* Claims about the request builders and the response handling, checked    *)
(* under Spec.                                                             *)
(***************************************************************************)
SendOps == {"emails.send"}
BulkOps == {"emails.send_bulk", "async.emails.send_bulk"}

\* a call of one of ops whose parameters are in view
Calling(ops) == op \in ops /\ args # NoArgs

\* the call failed on its arguments before any HTTP request
RejectedBeforeRequest ==
    /\ pc = "done"
    /\ result = Raised("ValueError")
    /\ nreq = 0

\* C4: send_bulk fails with an invalid-argument error, and issues no HTTP
\* request, whenever the recipients list is empty or has more than 1000
\* entries; an over-long list is never truncated and never forwarded.
C4_BulkRecipientCount ==
    ( /\ Calling(BulkOps)
      /\ \/ Len(args.recipients.v) = 0
         \/ Len(args.recipients.v) > MaxBulkRecipients )
    => RejectedBeforeRequest

\* C5: send and send_bulk fail with an invalid-argument error, and issue no
\* HTTP request, when template_id is the empty string.
C5_EmptyTemplateRejected ==
    (Calling(SendOps \cup BulkOps) /\ args.template_id = Str(""))
    => RejectedBeforeRequest

\* C6: an attachment whose kind is anything other than "pdf" or "excel" is
\* never forwarded in the request body of a single send, whether it arrives
\* through send_with_attachment or through the attachments option of send.
C6_AttachmentKindClosed ==
    ( /\ pc = "awaiting"
      /\ op \in {"emails.send", "emails.send_with_attachment"}
      /\ "attachments" \in DOMAIN request.body.v )
    => \A i \in 1..Len(request.body.v["attachments"].v) :
          request.body.v["attachments"].v[i].v["type"]
              \in {Str("pdf"), Str("excel")}

\* the wire key of each option
WireKey(k) ==
    CASE k = "sender_email" -> "senderEmail"
      [] k = "sender_id" -> "senderId"
      [] k = "from_name" -> "fromName"
      [] k = "reply_to" -> "replyTo"
      [] k = "base_variables" -> "baseVariables"
      [] k = "scheduled_at" -> "scheduledAt"
      [] k = "batch_name" -> "batchName"
      [] k = "dry_run" -> "dryRun"
      [] OTHER -> k

\* the value an option is carried as: cc and bcc as their normalised list
WireValue(k, v) ==
    IF k \in {"cc", "bcc"} THEN _normalize_recipients(v).v ELSE v

OptionNamesOf(o) == IF o \in BulkOps THEN BulkOptionNames ELSE SendOptionNames
RequiredKeysOf(o) ==
    IF o \in BulkOps THEN {"templateId", "recipients"} ELSE {"templateId", "to"}

\* C7: for every optional option of send and send_bulk, when the option is
\* not supplied its wire key is absent from the request body (never present
\* with a null value), and when supplied with a non-empty value the body
\* holds that value under its camelCase wire key (cc and bcc as their
\* normalised list), distinct options under distinct keys.
C7_OptionsToWireKeys ==
    (pc = "awaiting" /\ Calling(SendOps \cup BulkOps)) =>
        LET o == args.options
            body == request.body.v
            names == OptionNamesOf(op)
            nonEmpty == {k \in DOMAIN o : Truthy(o[k])}
        IN  /\ body["templateId"] = args.template_id
            /\ \A k \in names \ DOMAIN o : WireKey(k) \notin DOMAIN body
            /\ \A k \in nonEmpty :
                  /\ WireKey(k) \in DOMAIN body
                  /\ body[WireKey(k)] = WireValue(k, o[k])
            /\ \A k \in DOMAIN body : body[k] # None
            /\ Cardinality({WireKey(k) : k \in nonEmpty}) = Cardinality(nonEmpty)
            /\ {WireKey(k) : k \in nonEmpty} \cap RequiredKeysOf(op) = {}

\* C7 witness: a send with from_name and cc supplied is awaiting its answer,
\* the body holding both under fromName and cc.
C7_Witness ==
    /\ pc = "awaiting"
    /\ op = "emails.send"
    /\ DOMAIN args.options = {"from_name", "cc"}
    /\ args.options["cc"] = Str("c@x.com")
    /\ DOMAIN request.body.v = {"templateId", "to", "fromName", "cc"}
    /\ request.body.v["fromName"] = Str("Acme")
    /\ request.body.v["cc"] = List(<<Dict([email |-> Str("c@x.com")])>>)

\* C8: an optional non-boolean option of send or send_bulk that the caller
\* sets to an empty string or an empty sequence/mapping is omitted from the
\* request body exactly as if it had not been supplied, including cc and
\* bcc given as an empty list.
C8_EmptyOmitted ==
    (pc = "awaiting" /\ Calling(SendOps \cup BulkOps)) =>
        \A k \in DOMAIN args.options :
            (k # "dry_run" /\ ~Truthy(args.options[k]))
                => WireKey(k) \notin DOMAIN request.body.v

\* C9: send_bulk (blocking and non-blocking) puts dryRun: false in the body
\* when the caller passes False, dryRun: true when the caller passes True,
\* and no dryRun key when the caller does not pass dry_run.
C9_DryRunThreeCases ==
    (pc = "awaiting" /\ Calling(BulkOps)) =>
        LET o == args.options
            body == request.body.v
        IN  IF "dry_run" \in DOMAIN o
            THEN "dryRun" \in DOMAIN body /\ body["dryRun"] = o["dry_run"]
            ELSE "dryRun" \notin DOMAIN body

\* C9 witness: a send_bulk called with dry_run=False is awaiting its answer
\* and its body holds dryRun: false.
C9_Witness ==
    /\ pc = "awaiting"
    /\ op = "emails.send_bulk"
    /\ "dry_run" \in DOMAIN args.options
    /\ args.options["dry_run"] = Bool(FALSE)
    /\ "dryRun" \in DOMAIN request.body.v
    /\ request.body.v["dryRun"] = Bool(FALSE)

\* C10: the operations that unwrap (send, send_bulk, emails.get,
\* templates.get, me) return the value under data when the response is a
\* mapping containing data, and otherwise the response unchanged; they never
\* fail, whatever the response shape (including one that is not a mapping).
C10_UnwrapNeverFails ==
    (pc = "done" /\ op \in UnwrappingOps /\ response.kind = "json") =>
        /\ result.ok
        /\ result.v =
              IF response.v.t = "dict" /\ "data" \in DOMAIN response.v.v
              THEN response.v.v["data"]
              ELSE response.v


\* C11: in every bulk-send request body, every entry of recipients carries
\* a variables key, also when the caller's recipient record omitted it.
C11_VariablesAlwaysPresent ==
    (pc = "awaiting" /\ op \in BulkOps) =>
        \A i \in 1..Len(request.body.v["recipients"].v) :
            "variables" \in DOMAIN request.body.v["recipients"].v[i].v


\* the elements of a sequence
Elements(s) == {s[j] : j \in 1..Len(s)}

\* the per-recipient view of a bulk-send body: the attachment entries the
\* body carries for recipient i, its attachmentOverrides when it has some,
\* the body's attachments otherwise
ResolvedAttachments(body, i) ==
    LET r == body["recipients"].v[i].v
    IN  IF "attachmentOverrides" \in DOMAIN r /\ Truthy(r["attachmentOverrides"])
        THEN r["attachmentOverrides"].v
        ELSE IF "attachments" \in DOMAIN body THEN body["attachments"].v
        ELSE <<>>

ConstructOps == { "Formamail", "AsyncFormamail" }

\* C14: constructing Formamail or AsyncFormamail with an empty api_key
\* raises ValueError("api_key is required") and leaves no HTTP client and no
\* resources; with a non-empty api_key, whatever base_url, timeout and
\* headers, the client has its emails, templates and webhooks resources set.
C14_ApiKeyRequired ==
    (pc = "done" /\ op \in ConstructOps) =>
        IF args.api_key \in { Str(""), None }
        THEN /\ ~result.ok
             /\ result.v.v = "ValueError"
             /\ result.v.msg = "api_key is required"
             /\ DOMAIN client = {"kind"}
             /\ client.kind = "none"
        ELSE /\ result.ok
             /\ client.kind = (IF op = "Formamail" THEN "sync" ELSE "async")
             /\ {"http", "emails", "templates", "webhooks"} \subseteq DOMAIN client
             /\ client.http.state = "open"
             /\ client.http.api_key = args.api_key
             /\ client.http.base_url = args.base_url
             /\ client.http.timeout = args.timeout
             /\ client.http.headers = args.headers

\* C14 witness: AsyncFormamail("") has raised ValueError and no client exists.
C14_Witness ==
    /\ pc = "done"
    /\ op = "AsyncFormamail"
    /\ args.api_key = Str("")
    /\ ~result.ok
    /\ client = NoClient

\* C15: verify_api_key never raises: it returns True exactly when the me()
\* call under it completed without error (the HTTP call answered and the
\* answer could be unwrapped), and False for any error of that call.
C15_VerifyNeverRaises ==
    (pc = "done" /\ op \in VerifyOps) =>
        /\ result.ok
        /\ result.v.t = "bool"
        /\ result.v.v <=> (response.kind = "json" /\ response.v.t = "dict")

\* C15 witness: verify_api_key has returned False after an answer that
\* could not be unwrapped.
C15_Witness ==
    /\ pc = "done"
    /\ op = "verify_api_key"
    /\ response.kind = "json"
    /\ response.v.t # "dict"
    /\ result = Returned(Bool(FALSE))


\* a step that leaves the with block, and one that enters it
LeavesBlock == pc = "idle" /\ pc' = "done" /\ op' \in {"__exit__", "__aexit__"}
EntersBlock == pc = "idle" /\ pc' = "done" /\ op' \in {"__enter__", "__aenter__"}

\* C17: leaving the with block closes the underlying HTTP client exactly
\* once, whether the block ended normally or by an exception; entering the
\* block returns the same client and closes nothing.
C17_BlockClosesOnce ==
    [][ /\ LeavesBlock =>
            /\ closes' = closes + 1
            /\ client'.http.state = "closed"
            /\ client' = [client EXCEPT !.http.state = "closed"]
        /\ EntersBlock =>
            /\ closes' = closes
            /\ client' = client
            /\ result' = Returned(client) ]_vars

\* C17 witness: an async with block has ended by an exception and the HTTP
\* client, open until then, has been closed once.
C17_Witness ==
    /\ pc = "done"
    /\ op = "__aexit__"
    /\ args.exc = Exc("RuntimeError")
    /\ ctx = "left"
    /\ closes = 1
    /\ client.http.state = "closed"


SendingOps ==
    { "emails.send", "emails.send_with_attachment", "emails.send_bulk",
      "async.emails.send_bulk" }

\* C16: for every call of send, send_with_attachment or send_bulk, an
\* argument rejected by the call is rejected with zero HTTP requests issued;
\* otherwise exactly one request is issued, before and after its answer, and
\* an API or transport error of that request is the call's outcome unchanged.
C16_OneRequestErrorsUnchanged ==
    op \in SendingOps =>
        /\ pc = "awaiting" => (nreq = 1 /\ request # NoRequest)
        /\ (pc = "done" /\ response = NoResponse) => (nreq = 0 /\ ~result.ok)
        /\ (pc = "done" /\ response # NoResponse) => nreq = 1
        /\ (pc = "done" /\ response.kind = "error") =>
               (~result.ok /\ result.v = response.v /\ result.v \in HttpErrors)

\* C16 witness: send has raised ValueError for its recipients and no
\* request was issued.
C16_Witness ==
    /\ pc = "done"
    /\ op = "emails.send"
    /\ response = NoResponse
    /\ result = Raised("ValueError")
    /\ nreq = 0


SyncEmailsOps ==
    { "emails.send", "emails.send_with_attachment", "emails.send_bulk",
      "emails.get", "emails.list" }
AsyncEmailsOps ==
    { "async.emails.send", "async.emails.send_with_attachment",
      "async.emails.send_bulk", "async.emails.get", "async.emails.list" }

\* the same operation at the other entry point
Twin(o) ==
    CASE o = "emails.send" -> "async.emails.send"
      [] o = "emails.send_with_attachment" -> "async.emails.send_with_attachment"
      [] o = "emails.send_bulk" -> "async.emails.send_bulk"
      [] o = "emails.get" -> "async.emails.get"
      [] o = "emails.list" -> "async.emails.list"
      [] o = "async.emails.send" -> "emails.send"
      [] o = "async.emails.send_with_attachment" -> "emails.send_with_attachment"
      [] o = "async.emails.send_bulk" -> "emails.send_bulk"
      [] o = "async.emails.get" -> "emails.get"
      [] o = "async.emails.list" -> "emails.list"

\* C18: for every operation of the emails resource (send,
\* send_with_attachment, send_bulk, get, list) and every argument set, the
\* call in progress at one entry point has issued the method, path,
\* parameters and body, or raised the argument error, that the other entry
\* point makes of the same arguments, and returns for the HTTP outcome what
\* the other entry point returns for it.
C18_BlockingEqualsNonBlocking ==
    op \in SyncEmailsOps \cup AsyncEmailsOps =>
        /\ args # NoArgs =>
              LET twin == CallOf(Twin(op), args)
              IN  /\ pc = "awaiting" =>
                        /\ twin.built.ok
                        /\ request = [method |-> twin.method, path |-> twin.path,
                                      params |-> twin.params,
                                      body |-> twin.built.v]
                  /\ pc = "done" => (~twin.built.ok /\ result = twin.built)
        /\ (pc = "done" /\ response.kind = "json") =>
              result = Finish(Twin(op), Unwrap(Twin(op), response.v))
        /\ (pc = "done" /\ response.kind = "error") =>
              result = Finish(Twin(op), [ok |-> FALSE, v |-> response.v])

\* C18 witness: the non-blocking send, given an empty cc list, has issued
\* a request whose body carries the cc key, as the blocking send does.
C18_Witness ==
    /\ pc = "awaiting"
    /\ op = "async.emails.send"
    /\ Arg(args.options, "cc") = List(<<>>)
    /\ "cc" \in DOMAIN request.body.v
    /\ request.body = EmailsSendBody(args.template_id, args.to, args.options).v

SendWithAttachmentOps ==
    { "emails.send_with_attachment", "async.emails.send_with_attachment" }

\* the send operation at the same entry point
SendOf(o) ==
    IF o = "emails.send_with_attachment" THEN "emails.send"
    ELSE "async.emails.send"

\* the single entry A of C19, from the arguments of the call
EntryA(a) ==
    LET base == [type |-> IF a.attachment_type = Omitted THEN Str("pdf")
                          ELSE a.attachment_type,
                 templateId |-> a.attachment_template_id]
        named == IF a.file_name \in {None, Str("")} THEN base
                 ELSE Put(base, "fileName", a.file_name)
    IN  Dict(IF a.attachment_variables \in {None, Dict(EmptyMap)} THEN named
             ELSE Put(named, "variables", a.attachment_variables))

\* C19: send_with_attachment issues the request that send issues for the
\* same template_id, to and options with attachments=[A], A having type =
\* attachment_type ("pdf" when not given), templateId =
\* attachment_template_id, fileName only for a non-empty file_name and
\* variables only for non-empty attachment_variables; the body's attachments
\* list has exactly one entry; attachments among the extra options fails
\* with an error and no request.
C19_SendWithAttachmentIsSend ==
    (op \in SendWithAttachmentOps /\ args # NoArgs) =>
        IF "attachments" \in DOMAIN args.options
        THEN pc = "done" /\ result = Raised("TypeError") /\ nreq = 0
        ELSE LET same == CallOf(SendOf(op),
                            [template_id |-> args.template_id, to |-> args.to,
                             options |-> Put(args.options, "attachments",
                                             List(<<EntryA(args)>>))])
             IN  /\ pc = "awaiting" =>
                       /\ same.built.ok
                       /\ request = [method |-> same.method, path |-> same.path,
                                     params |-> same.params,
                                     body |-> same.built.v]
                       /\ request.body.v["attachments"] = List(<<EntryA(args)>>)
                       /\ Len(request.body.v["attachments"].v) = 1
                 /\ pc = "done" => (~same.built.ok /\ result = same.built)

\* C19 witness: send_with_attachment, given no attachment_type and an empty
\* file_name, has issued a request with one pdf attachment without fileName.
C19_Witness ==
    /\ pc = "awaiting"
    /\ op = "emails.send_with_attachment"
    /\ args.attachment_type = Omitted
    /\ args.file_name = Str("")
    /\ Len(request.body.v["attachments"].v) = 1
    /\ request.body.v["attachments"].v[1].v["type"] = Str("pdf")
    /\ "fileName" \notin DOMAIN request.body.v["attachments"].v[1].v

====
